---- MODULE Spec2Model ----
(***************************************************************************)
(* A model of metadata/optimizer_client.py: the OptimizerApi client, its    *)
(* external-process transport (_exec), its HTTP transport (authenticate,    *)
(* get_status, delete_workload), the cached auth token, the accessors, the  *)
(* upload call with its two temporary files, and OptimizerDataAdapter.      *)
(*                                                                          *)
(* Text is held as the sequence of lines text.split('\n') yields (never     *)
(* empty: ''.split('\n') is ['']).  A command-line token is a sequence of   *)
(* strings: an identifier is the sequence of its characters, a flag or any  *)
(* other word that the code never inspects is a one-element sequence.       *)
(***************************************************************************)
EXTENDS Integers, Sequences, FiniteSets

VARIABLES token, call, resp, files, up

vars == <<token, call, resp, files, up>>

(* ------------------------------ bounds --------------------------------- *)

\* Longest tool output, in lines.
MaxLines == 4
\* Longest identifier, in characters.
MaxIdLen == 2
\* Longest db_tables list.
MaxTables == 1
\* Longest data sequence handed to OptimizerDataAdapter.
MaxRows == 2
\* Number of random stems NamedTemporaryFile can draw for one suffix.
NumStems == 2

(* --------------------------- input alphabets --------------------------- *)

\* The lines a tool can print: an empty line, a banner that is no JSON, a
\* JSON object without a status field and one with a status field.
Lines == {"", "banner", "{\"id\": \"w1\"}", "{\"status\": \"failed\"}"}

Outputs == UNION {[1..k -> Lines] : k \in 1..MaxLines}

ExitCodes == {0, 1, 2}

\* What running the tool can do: the executable cannot be started, or it
\* exits with a code and leaves its captured output.
ToolRuns ==
  {[started |-> TRUE, exit |-> e, out |-> o] : e \in ExitCodes, o \in Outputs}
    \cup {[started |-> FALSE, exit |-> 0, out |-> <<"">>]}

\* What a POST can do: fail with a RestException, or answer a JSON body.
HttpReplies ==
  {[ok |-> FALSE]}
    \cup {[ok |-> TRUE, body |-> b] :
            b \in {[token |-> "t1"], [token |-> "t2"], [status |-> "failed"]}}

Chars == {"d", "D"}

Idents == UNION {[1..k -> Chars] : k \in 1..MaxIdLen}

TableLists == UNION {[1..k -> Idents] : k \in 0..MaxTables}

\* self._product_name, the query text: words the code passes on untouched.
ProductName == <<"Hue">>

Query == <<"SELECT 1">>

Word(s) == <<s>>

(* ------------------------------ outcomes ------------------------------- *)

Return(v) == [kind |-> "return", value |-> v]

Raise(e) == [kind |-> "raise", exc |-> e]

\* class OptimizerApiException(PopupException): the only subclass relation
\* among the exception types the client raises.
IsInstance(exc, type) ==
  \/ exc = type
  \/ exc = "OptimizerApiException" /\ type = "PopupException"

(* ------------------------------- _exec --------------------------------- *)

\* str.lower on one character, and on an identifier.
LowerChar(c) == IF c = "D" THEN "d" ELSE c

Lower(s) == [i \in 1..Len(s) |-> LowerChar(s[i])]

\* e.output.split('\n')[3:]
StripBanner(lines) == SubSeq(lines, 4, Len(lines))

\* '\n'.join(lines), in the split view: the join of no line (and of one
\* empty line) is the empty text.
JoinLines(lines) == IF lines = <<>> THEN <<"">> ELSE lines

\* `if data:` - a non-empty string.
Truthy(text) == text # <<"">>

NonBlank(text) == SelectSeq(text, LAMBDA l : l # "")

\* json.loads accepts surrounding whitespace around exactly one document.
IsJSON(text) ==
  /\ Len(NonBlank(text)) = 1
  /\ NonBlank(text)[1] \in {"{\"id\": \"w1\"}", "{\"status\": \"failed\"}"}

JsonLoads(text) ==
  IF NonBlank(text)[1] = "{\"id\": \"w1\"}" THEN [id |-> "w1"]
  ELSE [status |-> "failed"]

InjectStatusNever(d) == d

\* if 'status' not in response: response['status'] = 'success'
InjectStatus(d) ==
  IF "status" \in DOMAIN d THEN d
  ELSE [k \in DOMAIN d \cup {"status"} |->
          IF k = "status" THEN "success" ELSE d[k]]

\* The tail of _exec: response = {'status': 'error'} unless data is non-empty.
Finish(data) ==
  IF ~Truthy(data) THEN Return([status |-> "error"])
  ELSE IF ~IsJSON(data) THEN Raise("ValueError")
  ELSE Return(InjectStatus(JsonLoads(data)))

SoftSuccessAnyCommand(command, exit) == exit = 1

\* command == 'upload' and e.returncode == 1
SoftSuccess(command, exit) == command = "upload" /\ exit = 1

SalvageTwoLines(out) == JoinLines(SubSeq(out, 3, Len(out)))

\* data = '\n'.join(e.output.split('\n')[3:])
Salvage(out) == JoinLines(StripBanner(out))

\* _exec(command, args) when the tool behaves as `run`.  check_output raises
\* OSError when the executable cannot be started; no handler catches it.
Exec(command, run) ==
  IF ~run.started THEN Raise("OSError")
  ELSE IF run.exit = 0 THEN Finish(run.out)
  ELSE IF SoftSuccess(command, run.exit) THEN Finish(Salvage(run.out))
  ELSE Raise("OptimizerApiException")

\* self._root.post(...) inside try/except RestException -> PopupException.
Post(reply) ==
  IF reply.ok THEN Return(reply.body) ELSE Raise("PopupException")

(* ------------------------------- state --------------------------------- *)

NoCall == [op |-> "none"]

NoResp == [op |-> "none"]

Callers == {"A", "B"}

IdleUpload == [pc |-> "idle"]

Init ==
  /\ token = "None"
  /\ call = NoCall
  /\ resp = NoResp
  /\ files = {}
  /\ up = [t \in Callers |-> IdleUpload]

\* The client is synchronous: an operation starts only when none is running
\* and the caller has taken the outcome of the one before.
ClientIdle == call = NoCall /\ resp = NoResp /\ up["A"].pc = "idle"

\* An operation that ends in self._exec(command, args): the call is in flight.
Issue(op, command, ids, argv) ==
  /\ ClientIdle
  /\ call' = [op |-> op, cmd |-> command, ids |-> ids, argv |-> argv]
  /\ UNCHANGED <<token, resp, files, up>>

Tenant == <<Word("--tenant"), ProductName>>

\* get_tenant, create_tenant, upload_status, query_risk, top_databases and the
\* last statement of upload: _exec with arguments it passes on untouched.
PlainArgs(command) ==
  CASE command = "get-tenant" -> <<Word("--email"), Word("hue@localhost")>>
    [] command = "create-tenant" -> <<Word("--user-group"), Word("hue")>>
    [] command = "upload" ->
         <<Word("--cli-input-json"), Word("file:///tmp/tmpf.json")>>
    [] command = "upload-status" -> Tenant \o <<Word("--workload-id"), Word("w1")>>
    [] command = "get-query-risk" -> Tenant \o <<Word("--query"), Query>>
    [] command = "get-top-data-bases" -> Tenant

PlainCommands ==
  {"get-tenant", "create-tenant", "upload", "upload-status", "get-query-risk",
   "get-top-data-bases"}

PlainCall(command) == Issue("_exec", command, <<>>, PlainArgs(command))

(* ------------------------------ accessors ------------------------------ *)

TopTablesArgs(database_name) ==
  Tenant \o <<Word("--db-name"), Lower(database_name)>>

TableDetailsArgs(database_name, table_name) ==
  Tenant \o <<Word("--db-name"), Lower(database_name),
              Word("--table-name"), Lower(table_name)>>

QueryCompatibilityArgs(source_platform, target_platform) ==
  Tenant \o <<Word("--source-platform"), source_platform,
              Word("--target-platform"), target_platform,
              Word("--query"), Query>>

SimilarQueriesArgs(source_platform) ==
  Tenant \o <<Word("--source-platform"), source_platform,
              Word("--query"), Query>>

\* top_filters, top_aggs, top_columns, top_joins share this body.
DbTablesArgs(db_tables) ==
  IF db_tables # <<>>
  THEN Tenant \o <<Word("--db-table-list")>>
         \o [i \in 1..Len(db_tables) |-> Lower(db_tables[i])]
  ELSE Tenant

TopTables ==
  \E db \in Idents :
    Issue("top_tables", "get-top-tables", <<db>>, TopTablesArgs(db))

TableDetails ==
  \E db \in Idents, tbl \in Idents :
    Issue("table_details", "get-tables-detail", <<db, tbl>>,
          TableDetailsArgs(db, tbl))

QueryCompatibility ==
  \E src \in Idents, tgt \in Idents :
    Issue("query_compatibility", "get-query-compatible", <<src, tgt>>,
          QueryCompatibilityArgs(src, tgt))

SimilarQueries ==
  \E src \in Idents :
    Issue("similar_queries", "get-similar-queries", <<src>>,
          SimilarQueriesArgs(src))

TopFilters ==
  \E dbt \in TableLists :
    Issue("top_filters", "get-top-filters", dbt, DbTablesArgs(dbt))

TopAggs ==
  \E dbt \in TableLists :
    Issue("top_aggs", "get-top-aggs", dbt, DbTablesArgs(dbt))

TopColumns ==
  \E dbt \in TableLists :
    Issue("top_columns", "get-top-columns", dbt, DbTablesArgs(dbt))

TopJoins ==
  \E dbt \in TableLists :
    Issue("top_joins", "get-top-joins", dbt, DbTablesArgs(dbt))

\* The tool runs and _exec returns or raises.
ExecReturn ==
  /\ call # NoCall
  /\ \E run \in ToolRuns :
       resp' = [op |-> "_exec", cmd |-> call.cmd, run |-> run,
                res |-> Exec(call.cmd, run)]
  /\ call' = NoCall
  /\ UNCHANGED <<token, files, up>>

(* -------------------------------- HTTP --------------------------------- *)

HttpCall(op) ==
  /\ ClientIdle
  /\ \E reply \in HttpReplies :
       resp' = [op |-> op, before |-> token, http |-> reply,
                res |-> Post(reply)]
  /\ UNCHANGED <<token, call, files, up>>

Authenticate == HttpCall("authenticate")

GetStatus == HttpCall("get_status")

DeleteWorkload == HttpCall("delete_workload")

AuthAlways(tok, force) == TRUE

\* if self._token is None or force
AuthNeeded(tok, force) == tok = "None" \/ force

KeepToken(tok, body) == tok

\* self._token = self.authenticate()['token']
NewToken(tok, body) == body["token"]

\* _authenticate(force): the token is assigned only after authenticate() has
\* returned and the 'token' key has been read.
PrivAuthenticate ==
  /\ ClientIdle
  /\ \E force \in BOOLEAN :
       IF AuthNeeded(token, force)
       THEN \E reply \in HttpReplies :
              LET r == Post(reply)
                  ok == r.kind = "return" /\ "token" \in DOMAIN r.value
              IN  /\ token' = IF ok THEN NewToken(token, r.value) ELSE token
                  /\ resp' = [op |-> "_authenticate", force |-> force,
                              before |-> token, called |-> TRUE,
                              http |-> reply,
                              res |-> IF ok THEN Return(token')
                                      ELSE IF r.kind = "raise" THEN r
                                      ELSE Raise("KeyError")]
       ELSE /\ token' = token
            /\ resp' = [op |-> "_authenticate", force |-> force,
                        before |-> token, called |-> FALSE,
                        res |-> Return(token)]
  /\ UNCHANGED <<call, files, up>>

(* ------------------------- OptimizerDataAdapter ------------------------ *)

\* OptimizerApi.UPLOAD[data_type]['headers']
Headers(data_type) ==
  CASE data_type = "queries" -> <<"SQL_ID", "ELAPSED_TIME", "SQL_FULLTEXT">>
    [] data_type = "table_stats" -> <<"TABLE_NAME", "NUM_ROWS">>
    [] data_type = "cols_stats" ->
         <<"table_name", "column_name", "data_type", "num_distinct",
           "num_nulls", "avg_col_len">>

DataTypes == {"queries", "table_stats", "cols_stats"}

\* Python values: a str holds its text, a tuple or list its fields.
Str(s) == [py |-> "str", v |-> <<s>>]

Tuple(fields) == [py |-> "tuple", v |-> fields]

List(fields) == [py |-> "list", v |-> fields]

\* len() of the query texts the model draws.
StrLen(s) ==
  CASE s = "SELECT 1" -> 8
    [] s = "abc" -> 3
    [] s = "q" -> 1

PyLen(x) == IF x.py = "str" THEN StrLen(x.v[1]) ELSE Len(x.v)

QueryTexts == {"SELECT 1", "abc", "q"}

RawRows == {Str(s) : s \in QueryTexts}

TupleRows == {Tuple(<<"id1", "5.2", "SELECT 2">>), Tuple(<<"id2", "0.1", "q">>)}

\* data: raw query strings, or rows already in final shape.
DataInputs ==
  UNION {[1..k -> RawRows] \cup [1..k -> TupleRows] : k \in 0..MaxRows}

UUIDs == {"u1", "u2"}

\* The rows OptimizerDataAdapter yields; uuids[i] is the i-th str(uuid.uuid4()).
\* The generator branch is reached by raw strings only: a row of the inputs
\* above that is a tuple has three fields and makes the first test true.
AdapterRows(data, data_type, uuids) ==
  IF data_type \in {"table_stats", "cols_stats"} THEN data
  ELSE IF data # <<>> /\ PyLen(data[1]) = 3 THEN data
  ELSE [i \in 1..Len(data) |-> List(<<uuids[i], "0.0", data[i].v[1]>>)]

Adapt ==
  /\ ClientIdle
  /\ \E data \in DataInputs, data_type \in DataTypes :
       \E uuids \in [1..Len(data) -> UUIDs] :
         resp' = [op |-> "OptimizerDataAdapter", data |-> data,
                  data_type |-> data_type, uuids |-> uuids,
                  headers |-> Headers(data_type),
                  rows |-> AdapterRows(data, data_type, uuids)]
  /\ UNCHANGED <<token, call, files, up>>

\* The outcome reaches the caller: the value is returned or the exception
\* propagates, and the client holds nothing of it.
Deliver ==
  /\ resp # NoResp
  /\ resp' = NoResp
  /\ UNCHANGED <<token, call, files, up>>

ClientNext ==
  \/ \E command \in PlainCommands : PlainCall(command)
  \/ TopTables
  \/ TableDetails
  \/ QueryCompatibility
  \/ SimilarQueries
  \/ TopFilters
  \/ TopAggs
  \/ TopColumns
  \/ TopJoins
  \/ ExecReturn
  \/ Authenticate
  \/ GetStatus
  \/ DeleteWorkload
  \/ PrivAuthenticate
  \/ Adapt
  \/ Deliver

(* ------------------------------- upload -------------------------------- *)

\* A path in the temporary directory: the random stem and the suffix.
Stems == 1..NumStems

\* data_suffix
Suffix(data_type) ==
  IF data_type \in {"table_stats", "cols_stats"} THEN ".log" ELSE ".csv"

NoPath == <<0, "">>

\* files holds one record per file on disk: its path and the call that
\* created it.
Exists(p) == \E f \in files : f.path = p

Unlinked(p) == {f \in files : f.path # p}

\* mkstemp: a file is created under a name no file on disk has.
Created(p, t) == files \cup {[path |-> p, by |-> t]}

\* open(name, 'w+'): the file at that name is truncated, or created if none is.
Opened(p, t) == IF Exists(p) THEN files ELSE Created(p, t)

At(t, line) == up[t].pc = line

Goto(t, line) == [up EXCEPT ![t].pc = line]

\* upload(data, data_type, ...) is entered.
UploadStart(t) ==
  /\ At(t, "idle")
  /\ call = NoCall
  /\ resp = NoResp
  /\ \E data_type \in DataTypes :
       up' = [up EXCEPT ![t] = [pc |-> "L276", data_type |-> data_type,
                                qpath |-> NoPath, fpath |-> NoPath,
                                ntf |-> {}, out |-> [kind |-> "none"]]]
  /\ UNCHANGED <<token, call, resp, files>>

\* f_queries_path = NamedTemporaryFile(suffix=data_suffix)
L276(t) ==
  /\ At(t, "L276")
  /\ \E stem \in Stems :
       LET p == <<stem, Suffix(up[t].data_type)>>
       IN  /\ ~Exists(p)
           /\ files' = Created(p, t)
           /\ up' = [up EXCEPT ![t].pc = "L277", ![t].qpath = p,
                               ![t].ntf = {p}]
  /\ UNCHANGED <<token, call, resp>>

\* f_format_path = NamedTemporaryFile(suffix='.json')
L277(t) ==
  /\ At(t, "L277")
  /\ \E stem \in Stems :
       LET p == <<stem, ".json">>
       IN  /\ ~Exists(p)
           /\ files' = Created(p, t)
           /\ up' = [up EXCEPT ![t].pc = "L278", ![t].fpath = p,
                               ![t].ntf = @ \cup {p}]
  /\ UNCHANGED <<token, call, resp>>

\* NamedTemporaryFile.close(): the handle is closed and os.unlink(name) run,
\* which raises OSError when no file has that name any more.
CloseTemp(t, p, next) ==
  IF Exists(p)
  THEN /\ files' = Unlinked(p)
       /\ up' = [up EXCEPT ![t].pc = next, ![t].ntf = @ \ {p}]
  ELSE /\ files' = files
       /\ up' = [up EXCEPT ![t].pc = "done", ![t].ntf = @ \ {p},
                           ![t].out = Raise("OSError")]

\* f_queries_path.close()
L278(t) ==
  /\ At(t, "L278")
  /\ CloseTemp(t, up[t].qpath, "L279")
  /\ UNCHANGED <<token, call, resp>>

\* f_format_path.close()
L279(t) ==
  /\ At(t, "L279")
  /\ CloseTemp(t, up[t].fpath, "L282")
  /\ UNCHANGED <<token, call, resp>>

\* open(path, 'w+') inside the outer try: it succeeds, or raises IOError and
\* control passes to the outer finally.
OpenByName(t, p, next) ==
  \E ok \in BOOLEAN :
    IF ok
    THEN /\ files' = Opened(p, t)
         /\ up' = Goto(t, next)
    ELSE /\ files' = files
         /\ up' = [up EXCEPT ![t].pc = "L314", ![t].out = Raise("IOError")]

\* f_queries = open(f_queries_path.name, 'w+')
L282(t) ==
  /\ At(t, "L282")
  /\ OpenByName(t, up[t].qpath, "L283")
  /\ UNCHANGED <<token, call, resp>>

\* f_format = open(f_format_path.name, 'w+')
L283(t) ==
  /\ At(t, "L283")
  /\ OpenByName(t, up[t].fpath, "L286")
  /\ UNCHANGED <<token, call, resp>>

\* The inner try: the CSV rows and the manifest are written, or one of the
\* generator, the write and the template raises; the inner finally closes
\* both handles either way.
L286(t) ==
  /\ At(t, "L286")
  /\ \E ok \in BOOLEAN :
       up' = IF ok THEN Goto(t, "L309")
             ELSE [up EXCEPT ![t].pc = "L314", ![t].out = Raise("Exception")]
  /\ UNCHANGED <<token, call, resp, files>>

\* Every outcome _exec('upload', args) can have.
UploadOutcomes == {Exec("upload", run) : run \in ToolRuns}

\* return self._exec('upload', args); the outer finally runs next.
L309(t) ==
  /\ At(t, "L309")
  /\ \E out \in UploadOutcomes :
       up' = [up EXCEPT ![t].pc = "L314", ![t].out = out]
  /\ UNCHANGED <<token, call, resp, files>>

\* os.remove(path) in the outer finally: OSError when no file has that name,
\* which replaces the outcome so far and ends the finally block.
RemoveByName(t, p, next) ==
  IF Exists(p)
  THEN /\ files' = Unlinked(p)
       /\ up' = Goto(t, next)
  ELSE /\ files' = files
       /\ up' = [up EXCEPT ![t].pc = "done", ![t].out = Raise("OSError")]

\* os.remove(f_queries_path.name)
L314(t) ==
  /\ At(t, "L314")
  /\ RemoveByName(t, up[t].qpath, "L315")
  /\ UNCHANGED <<token, call, resp>>

\* os.remove(f_format_path.name)
L315(t) ==
  /\ At(t, "L315")
  /\ RemoveByName(t, up[t].fpath, "done")
  /\ UNCHANGED <<token, call, resp>>

\* The call has returned or raised; its frame is dropped, and a
\* NamedTemporaryFile it still held open is closed by its finalizer.
UploadReturn(t) ==
  /\ At(t, "done")
  /\ files' = {f \in files : f.path \notin up[t].ntf}
  /\ up' = [up EXCEPT ![t] = IdleUpload]
  /\ UNCHANGED <<token, call, resp>>

UploadNext(t) ==
  \/ UploadStart(t)
  \/ L276(t)
  \/ L277(t)
  \/ L278(t)
  \/ L279(t)
  \/ L282(t)
  \/ L283(t)
  \/ L286(t)
  \/ L309(t)
  \/ L314(t)
  \/ L315(t)
  \/ UploadReturn(t)

(* --------------------------- specifications ---------------------------- *)

\* One client used by one caller: operations follow one another.
Next == ClientNext \/ UploadNext("A")

Spec == Init /\ [][Next]_vars

\* Upload calls of several callers, interleaved line by line.
NextConc == \E t \in Callers : UploadNext(t)

SpecConc == Init /\ [][NextConc]_vars

(* ------------------------------- claims -------------------------------- *)

HttpOps == {"authenticate", "get_status", "delete_workload"}

AccessorOps ==
  {"top_tables", "table_details", "query_compatibility", "similar_queries",
   "top_filters", "top_aggs", "top_columns", "top_joins"}

\* A finished _exec call whose tool exited 0 with non-empty JSON output that
\* has no status field.
ExecOkNoStatus ==
  /\ resp.op = "_exec"
  /\ resp.run.started
  /\ resp.run.exit = 0
  /\ resp.run.out # <<"">>
  /\ IsJSON(resp.run.out)
  /\ "status" \notin DOMAIN JsonLoads(resp.run.out)

\* A finished HTTP call that answered a JSON body without a status field.
HttpOkNoStatus ==
  /\ resp.op \in HttpOps
  /\ resp.http.ok
  /\ "status" \notin DOMAIN resp.http.body

HasSuccessStatus(res) ==
  /\ res.kind = "return"
  /\ "status" \in DOMAIN res.value
  /\ res.value["status"] = "success"

C2_OtherNonZeroExitRaises ==
  (/\ resp.op = "_exec"
   /\ resp.run.started
   /\ resp.run.exit # 0
   /\ ~(resp.cmd = "upload" /\ resp.run.exit = 1))
    => resp.res = Raise("OptimizerApiException")

C2_Witness ==
  /\ resp.op = "_exec"
  /\ resp.cmd = "get-top-tables"
  /\ resp.run.started
  /\ resp.run.exit = 1
  /\ resp.res.kind = "raise"

\* A finished _exec('upload', ...) whose tool exited 1.
UploadExitOne ==
  /\ resp.op = "_exec"
  /\ resp.cmd = "upload"
  /\ resp.run.started
  /\ resp.run.exit = 1

\* The output after its first three lines, as one text.
AfterBanner(out) ==
  IF Len(out) <= 3 THEN <<"">> ELSE [i \in 1..(Len(out) - 3) |-> out[i + 3]]

WithStatus(d) ==
  IF "status" \in DOMAIN d THEN d
  ELSE [k \in DOMAIN d \cup {"status"} |->
          IF k = "status" THEN "success" ELSE d[k]]

\* C3, as amended: when 'upload' exits 1, _exec never raises the client-facing
\* exception; if the output after its first three lines is non-empty and
\* parses as JSON, the response is that JSON (status "success" injected when
\* absent); if nothing is left the response is {status: "error"}; if what is
\* left is not JSON, the parse error propagates.
C3_SoftSuccessSalvagesOutput ==
  UploadExitOne =>
    LET text == AfterBanner(resp.run.out)
    IN  IF text = <<"">> THEN resp.res = Return([status |-> "error"])
        ELSE IF ~IsJSON(text) THEN resp.res = Raise("ValueError")
        ELSE resp.res = Return(WithStatus(JsonLoads(text)))

C3_Witness ==
  /\ UploadExitOne
  /\ resp.run.out = <<"{\"status\": \"failed\"}", "banner", "banner",
                       "{\"id\": \"w1\"}">>
  /\ resp.res = Return([id |-> "w1", status |-> "success"])

\* C3, as stated: when 'upload' exits 1, _exec does not raise, and for every
\* captured output the response is the JSON parsed from the output after its
\* first three lines (status "success" injected when absent).
C3_SoftSuccessNeverRaises ==
  UploadExitOne =>
    /\ resp.res.kind = "return"
    /\ IsJSON(AfterBanner(resp.run.out))
    /\ resp.res.value = WithStatus(JsonLoads(AfterBanner(resp.run.out)))

\* The paths a call has chosen so far.
PathsOf(t) == {up[t].qpath, up[t].fpath} \ {NoPath}

\* C4: once an upload call has returned or raised, neither temporary file
\* created for that call exists on disk.
C4_NoTempFileAfterUpload ==
  \A t \in Callers :
    up[t].pc = "done" =>
      ~\E f \in files : f.by = t /\ f.path \in PathsOf(t)

\* A finished call that failed in its transport: a non-zero exit that is not
\* the soft success, or a RestException of the HTTP client.
TransportFailure ==
  \/ /\ resp.op = "_exec"
     /\ resp.run.started
     /\ resp.run.exit # 0
     /\ ~(resp.cmd = "upload" /\ resp.run.exit = 1)
  \/ /\ resp.op \in HttpOps
     /\ ~resp.http.ok

\* C5: every transport failure reaches the caller as the exception type _exec
\* raises, so a handler for that type catches the HTTP failures too.
C5_OneExceptionType ==
  TransportFailure =>
    /\ resp.res.kind = "raise"
    /\ IsInstance(resp.res.exc, "OptimizerApiException")

IdentFlags ==
  {Word("--db-name"), Word("--table-name"), Word("--source-platform"),
   Word("--target-platform")}

IsLowerCase(w) == \A j \in 1..Len(w) : w[j] # "D"

\* C6: in the argument list an accessor passes to the tool, every database
\* name, table name, platform tag and db_tables entry is lowercase.
C6_IdentifiersLowercased ==
  call.op \in AccessorOps =>
    \A i \in 2..Len(call.argv) :
      (\/ call.argv[i - 1] \in IdentFlags
       \/ \E j \in 1..(i - 1) : call.argv[j] = Word("--db-table-list"))
        => IsLowerCase(call.argv[i])

\* C7: for data_type 'queries', raw query strings of any length are each
\* emitted as (uuid, 0.0, q), rows that are already 3-tuples pass through
\* unchanged, and as many rows come out as went in.
C7_AdapterRows ==
  (resp.op = "OptimizerDataAdapter" /\ resp.data_type = "queries") =>
    /\ Len(resp.rows) = Len(resp.data)
    /\ \A i \in 1..Len(resp.data) :
         IF resp.data[i].py = "str"
         THEN resp.rows[i] = List(<<resp.uuids[i], "0.0", resp.data[i].v[1]>>)
         ELSE resp.rows[i] = resp.data[i]

\* C8: the cached token changes only in a successful authentication made by
\* _authenticate while no token is cached or force is set, and then becomes
\* the token the service returned; a non-forced _authenticate with a cached
\* token returns it without calling the service; a failed authentication and
\* every other operation leave the token as it was.
C8_TokenChangesOnlyOnAuthentication ==
  [][/\ token' # token =>
          /\ resp'.op = "_authenticate"
          /\ token = "None" \/ resp'.force
          /\ resp'.called
          /\ resp'.http.ok
          /\ "token" \in DOMAIN resp'.http.body
          /\ token' = resp'.http.body["token"]
     /\ (resp' # resp /\ resp'.op = "_authenticate"
           /\ ~resp'.force /\ token # "None") =>
          /\ ~resp'.called
          /\ resp'.res = Return(token)
          /\ token' = token
     /\ (resp' # resp /\ resp'.op = "_authenticate"
           /\ resp'.res.kind = "raise") => token' = token]_vars

C8_Witness ==
  /\ resp.op = "_authenticate"
  /\ resp.force
  /\ resp.before = "t1"
  /\ token = "t2"

\* The service returned a token to a client that had none cached.
FirstTokenReturned ==
  /\ resp.before = "None"
  /\ resp.http.ok
  /\ "token" \in DOMAIN resp.http.body

\* C9, as amended: from a fresh client, after the first _authenticate() that
\* succeeds the cached token is set and equals the token the service
\* returned; the public authenticate() returns the service's answer and
\* leaves the cached token as it was.
C9_FirstPrivateAuthenticateSetsToken ==
  /\ (resp.op = "_authenticate" /\ resp.called /\ FirstTokenReturned) =>
       /\ token # "None"
       /\ token = resp.http.body["token"]
       /\ resp.res = Return(token)
  /\ resp.op = "authenticate" => token = resp.before

C9_Witness ==
  /\ resp.op = "_authenticate"
  /\ resp.before = "None"
  /\ token = "t1"

\* C9, as stated: after the first authenticate operation that succeeds,
\* public or private, the cached token equals the token the service returned.
C9_FirstAuthenticateSetsToken ==
  (resp.op \in {"authenticate", "_authenticate"} /\ FirstTokenReturned) =>
    token = resp.http.body["token"]

InProgress(t) == up[t].pc \notin {"idle", "done"}

\* C10: each upload call owns its temporary paths exclusively from the moment
\* they are chosen until the call finishes: no two calls in progress hold the
\* same path.
C10_PathsOwnedExclusively ==
  \A a \in Callers, b \in Callers :
    (a # b /\ InProgress(a) /\ InProgress(b)) =>
      PathsOf(a) \cap PathsOf(b) = {}

====
